---- MODULE Spec2Model ----
(***************************************************************************)
(* Expense Split Backend: the request handlers create_group and            *)
(* create_expense of main.py with the entity schemas of schemas.py, and    *)
(* the document serializer serialize_doc.                                  *)
(*                                                                         *)
(* Money is modelled by integers (the inputs are chosen so that every sum  *)
(* and percentage used below is exact).  An e-mail address is a string;    *)
(* the one ill-formed address is "not-an-email".                           *)
(***************************************************************************)
EXTENDS Integers, Sequences, FiniteSets, TLC

VARIABLES store, nextId, request, response, prev, trace, doc, result

vars == <<store, nextId, request, response, prev, trace, doc, result>>

----------------------------------------------------------------------------
(* Bounds of the model *)

MaxDocs == 1
MaxSplits == 2
MaxMembers == 2
MaxOid == 2

----------------------------------------------------------------------------
(* Input domains *)

ValidEmails == {"a@x.io", "b@x.io", "c@x.io"}
RawEmails == ValidEmails \cup {"not-an-email"}
SplitUsers == {"a@x.io", "b@x.io"}
SplitTypes == {"equal", "exact", "percentage"}
SplitKinds ==
    { [type |-> "equal", share |-> 0],
      [type |-> "exact", share |-> 7],
      [type |-> "percentage", share |-> 60],
      [type |-> "exact", share |-> -1],
      [type |-> "weighted", share |-> 0] }
SplitInputs == { [user |-> u, type |-> k.type, share |-> k.share] : u \in SplitUsers, k \in SplitKinds }
Amounts == {-1, 0, 10}
Dates == {"None", "2024-05-01T00:00:00"}

SeqsUpTo(S, n) == UNION { [1..k -> S] : k \in 0..n }

GroupPayloads ==
    { [op |-> "create_group", name |-> "trip", created_by |-> c, members |-> m,
       default_currency |-> "USD", image_url |-> "None"] :
         c \in RawEmails, m \in SeqsUpTo(RawEmails, MaxMembers) }

ExpensePayloads ==
    { [op |-> "create_expense", group_id |-> "g1", description |-> "dinner",
       amount |-> a, currency |-> "USD", paid_by |-> "a@x.io", date |-> d,
       splits |-> s, notes |-> "None"] :
         a \in Amounts, d \in Dates, s \in SeqsUpTo(SplitInputs, MaxSplits) }

----------------------------------------------------------------------------
(* schemas.py: field validation *)

EmailStr(e) == e \in ValidEmails

SplitItemNoShareCheck(s) == EmailStr(s.user) /\ s.type \in SplitTypes

SplitItem(s) == EmailStr(s.user) /\ s.type \in SplitTypes /\ s.share >= 0

SplitsNonEmptyOnly(splits) == Len(splits) > 0 /\ \A i \in 1..Len(splits) : SplitItem(splits[i])

SplitsField(splits) == \A i \in 1..Len(splits) : SplitItem(splits[i])

Expense(kw) == EmailStr(kw.paid_by) /\ kw.amount > 0 /\ SplitsField(kw.splits)

Group(kw) == EmailStr(kw.created_by) /\ \A i \in 1..Len(kw.members) : EmailStr(kw.members[i])

(* main.py: request bodies *)

CreateGroup(p) == EmailStr(p.created_by) /\ \A i \in 1..Len(p.members) : EmailStr(p.members[i])

CreateExpense(p) == EmailStr(p.paid_by) /\ SplitsField(p.splits)

----------------------------------------------------------------------------
(* The document store (database.py is not part of the sources) *)

TotalDocs == Len(store.group) + Len(store.expense)

create_document(coll, entity, id) ==
    [store EXCEPT ![coll] = Append(@, [_id |-> id, fields |-> entity])]

----------------------------------------------------------------------------
(* main.py: create_group *)

RECURSIVE Dedup(_, _)
Dedup(s, seen) ==
    IF s = <<>> THEN <<>>
    ELSE IF Head(s) \in seen THEN Dedup(Tail(s), seen)
         ELSE <<Head(s)>> \o Dedup(Tail(s), seen \cup {Head(s)})

NoDedup(s) == s

dict_fromkeys(s) == Dedup(s, {})

GroupMembers(p) == dict_fromkeys(p.members \o <<p.created_by>>)

GroupKw(p) ==
    [name |-> p.name, created_by |-> p.created_by, members |-> GroupMembers(p),
     default_currency |-> p.default_currency, image_url |-> p.image_url]

NoRequest == [op |-> "none"]
NoResponse == [status |-> 0, detail |-> "none", id |-> 0]

Rejected(status, detail) == [status |-> status, detail |-> detail, id |-> 0]
Accepted(id) == [status |-> 200, detail |-> "ok", id |-> id]

create_group(p) ==
    /\ request' = p
    /\ prev' = store
    /\ UNCHANGED <<doc, result>>
    /\ IF ~CreateGroup(p)
         THEN /\ response' = Rejected(422, "ValidationError")
              /\ trace' = <<"CreateGroup">>
              /\ UNCHANGED <<store, nextId>>
         ELSE IF ~Group(GroupKw(p))
         THEN /\ response' = Rejected(500, "ValidationError")
              /\ trace' = <<"CreateGroup", "Group">>
              /\ UNCHANGED <<store, nextId>>
         ELSE /\ store' = create_document("group", GroupKw(p), nextId)
              /\ nextId' = nextId + 1
              /\ response' = Accepted(nextId)
              /\ trace' = <<"CreateGroup", "Group", "create_document">>

----------------------------------------------------------------------------
(* main.py: create_expense *)

AmountNegativeOnly(p) == p.amount < 0

AmountNotPositive(p) == p.amount <= 0

ExpenseKwWithDate(p) ==
    [group_id |-> p.group_id, description |-> p.description, amount |-> p.amount,
     currency |-> p.currency, paid_by |-> p.paid_by, date |-> p.date,
     splits |-> p.splits, notes |-> p.notes]

ExpenseKw(p) ==
    [group_id |-> p.group_id, description |-> p.description, amount |-> p.amount,
     currency |-> p.currency, paid_by |-> p.paid_by, date |-> "None",
     splits |-> p.splits, notes |-> p.notes]

create_expense(p) ==
    /\ request' = p
    /\ prev' = store
    /\ UNCHANGED <<doc, result>>
    /\ IF ~CreateExpense(p)
         THEN /\ response' = Rejected(422, "ValidationError")
              /\ trace' = <<"CreateExpense">>
              /\ UNCHANGED <<store, nextId>>
         ELSE IF AmountNotPositive(p)
         THEN /\ response' = Rejected(400, "Amount must be greater than 0")
              /\ trace' = <<"CreateExpense", "check_amount">>
              /\ UNCHANGED <<store, nextId>>
         ELSE IF ~Expense(ExpenseKw(p))
         THEN /\ response' = Rejected(500, "ValidationError")
              /\ trace' = <<"CreateExpense", "check_amount", "Expense">>
              /\ UNCHANGED <<store, nextId>>
         ELSE /\ store' = create_document("expense", ExpenseKw(p), nextId)
              /\ nextId' = nextId + 1
              /\ response' = Accepted(nextId)
              /\ trace' = <<"CreateExpense", "check_amount", "Expense", "create_document">>

----------------------------------------------------------------------------
(* main.py: serialize_doc                                                  *)
(* A document is a mapping from keys to values; a value is a pair          *)
(* <<kind, n>>: the n-th ObjectId, the n-th datetime, the n-th string.     *)
(* str(ObjectId n) is string 100 + n, datetime(n).isoformat() is string    *)
(* 200 + n.  None is the document with present = FALSE.                    *)

DocKeys == {"id", "name", "created_at"}
FieldValues == {<<"str", 1>>, <<"datetime", 1>>}
ObjectIds == { <<"ObjectId", n>> : n \in 1..MaxOid }

EmptyFields == [k \in {} |-> <<"str", 1>>]
None == [present |-> FALSE, fields |-> EmptyFields]
Dict(f) == [present |-> TRUE, fields |-> f]

PlainDicts == UNION { [K -> FieldValues] : K \in SUBSET DocKeys }
WithId(f, oid) == [k \in DOMAIN f \cup {"_id"} |-> IF k = "_id" THEN oid ELSE f[k]]
SerializeInputs ==
    {None} \cup { Dict(f) : f \in PlainDicts }
           \cup { Dict(WithId(f, oid)) : f \in PlainDicts, oid \in ObjectIds }

str(v) == <<"str", 100 + v[2]>>
isoformat(v) == <<"str", 200 + v[2]>>
isinstance_datetime(v) == v[1] = "datetime"

Pop(f, key) == [k \in DOMAIN f \ {key} |-> f[k]]
Put(f, key, v) == [k \in DOMAIN f \cup {key} |-> IF k = key THEN v ELSE f[k]]

serialize_doc_keep_datetime(d) ==
    IF ~d.present \/ DOMAIN d.fields = {} THEN d
    ELSE LET popped == Pop(d.fields, "_id")
         IN  Dict(IF "_id" \in DOMAIN d.fields
                    THEN Put(popped, "id", str(d.fields["_id"]))
                    ELSE popped)

serialize_doc(d) ==
    IF ~d.present \/ DOMAIN d.fields = {} THEN d
    ELSE LET popped == Pop(d.fields, "_id")
             withId == IF "_id" \in DOMAIN d.fields
                         THEN Put(popped, "id", str(d.fields["_id"]))
                         ELSE popped
         IN  Dict([k \in DOMAIN withId |->
                     IF isinstance_datetime(withId[k]) THEN isoformat(withId[k])
                     ELSE withId[k]])

----------------------------------------------------------------------------
(* Specification of the request handlers *)

Init ==
    /\ store = [group |-> <<>>, expense |-> <<>>]
    /\ nextId = 1
    /\ request = NoRequest
    /\ response = NoResponse
    /\ prev = [group |-> <<>>, expense |-> <<>>]
    /\ trace = <<>>
    /\ doc = None
    /\ result = None

(* The response has been sent; the server waits for the next request. *)
Respond ==
    /\ request # NoRequest
    /\ request' = NoRequest
    /\ response' = NoResponse
    /\ trace' = <<>>
    /\ prev' = store
    /\ UNCHANGED <<store, nextId, doc, result>>

(* The server takes one request at a time; the store holds at most MaxDocs. *)
Ready == request = NoRequest /\ TotalDocs < MaxDocs

PostGroups == Ready /\ \E p \in GroupPayloads : create_group(p)

PostExpenses == Ready /\ \E p \in ExpensePayloads : create_expense(p)

Next == PostGroups \/ PostExpenses \/ Respond

Spec == Init /\ [][Next]_vars

----------------------------------------------------------------------------
(* Specification of serialize_doc applied to one document *)

InitSerialize ==
    /\ store = [group |-> <<>>, expense |-> <<>>]
    /\ nextId = 1
    /\ request = NoRequest
    /\ response = NoResponse
    /\ prev = [group |-> <<>>, expense |-> <<>>]
    /\ trace = <<>>
    /\ doc \in SerializeInputs
    /\ result = None

Serialize ==
    /\ trace = <<>>
    /\ result' = serialize_doc(doc)
    /\ trace' = <<"serialize_doc">>
    /\ UNCHANGED <<store, nextId, request, response, prev, doc>>

NextSerialize == Serialize

SpecSerialize == InitSerialize /\ [][NextSerialize]_vars

----------------------------------------------------------------------------
(* Vocabulary of the properties *)

Expenses == { store.expense[i].fields : i \in 1..Len(store.expense) }
InTrace(step) == \E i \in 1..Len(trace) : trace[i] = step
Handled(op) == request # NoRequest /\ request.op = op
Last(s) == s[Len(s)]
Range(s) == { s[i] : i \in 1..Len(s) }
Count(s, x) == Cardinality({ i \in 1..Len(s) : s[i] = x })
FirstIndex(s, x) == CHOOSE i \in 1..Len(s) : s[i] = x /\ \A j \in 1..(i - 1) : s[j] # x

RECURSIVE SumOver(_, _, _)
SumOver(splits, type, amount) ==
    IF splits = <<>> THEN 0
    ELSE (IF Head(splits).type # type THEN 0
          ELSE IF type = "percentage" THEN (amount * Head(splits).share) \div 100
          ELSE Head(splits).share)
         + SumOver(Tail(splits), type, amount)

RECURSIVE ShareTotal(_, _)
ShareTotal(splits, type) ==
    IF splits = <<>> THEN 0
    ELSE (IF Head(splits).type = type THEN Head(splits).share ELSE 0)
         + ShareTotal(Tail(splits), type)

(* the money recorded for the splits of a stored expense: the share of an  *)
(* exact or equal entry, the percentage of the amount of a percentage one *)
RecordedTotal(e) ==
    SumOver(e.splits, "equal", e.amount) + SumOver(e.splits, "exact", e.amount)
      + SumOver(e.splits, "percentage", e.amount)

DuplicateUser(splits) ==
    \E i, j \in 1..Len(splits) : i # j /\ splits[i].user = splits[j].user

----------------------------------------------------------------------------
(* C1: every stored expense with a non-empty splits list records per-user  *)
(* amounts that sum to the amount of the expense.                          *)
C1_SplitsSumToAmount ==
    \A e \in Expenses : Len(e.splits) > 0 => RecordedTotal(e) = e.amount

(* C2: for every valid created_by and members, create_group stores a      *)
(* member list that holds created_by exactly once, has no duplicate, holds *)
(* exactly the given members and created_by, and keeps the members in the  *)
(* order of their first occurrence in the request.                         *)
C2_GroupMembersNormalized ==
    (Handled("create_group") /\ CreateGroup(request)) =>
        /\ response.status = 200
        /\ Len(store.group) = Len(prev.group) + 1
        /\ LET m == Last(store.group).fields.members
               given == request.members \o <<request.created_by>>
           IN  /\ Count(m, request.created_by) = 1
               /\ \A x \in Range(m) : Count(m, x) = 1
               /\ Range(m) = Range(request.members) \cup {request.created_by}
               /\ \A i, j \in 1..Len(m) :
                     i < j => FirstIndex(given, m[i]) < FirstIndex(given, m[j])

C2_Witness ==
    /\ Handled("create_group")
    /\ response.status = 200
    /\ Len(request.members) = 2
    /\ request.members[1] = request.members[2]
    /\ request.members[1] # request.created_by

(* C3: no stored expense has two split entries with the same user.         *)
C3_NoDuplicateSplitUser ==
    \A e \in Expenses : ~DuplicateUser(e.splits)

(* C4: no stored expense has exact shares summing above its amount or      *)
(* percentage shares summing above 100.                                    *)
C4_NoSplitOverflow ==
    \A e \in Expenses :
        /\ ShareTotal(e.splits, "exact") <= e.amount
        /\ ShareTotal(e.splits, "percentage") <= 100

(* C5: no stored expense has a non-empty splits list without an equal      *)
(* entry whose exact and percentage entries resolve to less than the       *)
(* amount.                                                                 *)
C5_NoSplitShortfall ==
    \A e \in Expenses :
        ~ ( /\ Len(e.splits) > 0
            /\ \A i \in 1..Len(e.splits) : e.splits[i].type # "equal"
            /\ 100 * ShareTotal(e.splits, "exact")
                 + e.amount * ShareTotal(e.splits, "percentage") < 100 * e.amount )

(* C6: a create_expense request with amount <= 0 is rejected before the    *)
(* Expense entity is constructed and before create_document is called;    *)
(* the store is left as it was.                                            *)
C6_NonPositiveAmountRejectedFirst ==
    (Handled("create_expense") /\ request.amount <= 0) =>
        /\ response.status \in {400, 422}
        /\ ~InTrace("Expense")
        /\ ~InTrace("create_document")
        /\ store = prev
        /\ CreateExpense(request) =>
              /\ response = Rejected(400, "Amount must be greater than 0")
              /\ trace = <<"CreateExpense", "check_amount">>

C6_Witness ==
    /\ Handled("create_expense")
    /\ request.amount <= 0
    /\ Len(request.splits) > 0
    /\ response.status = 400

(* C7: a create_expense request with amount > 0 and an empty splits list   *)
(* is accepted, and the stored expense has an empty splits sequence.       *)
C7_EmptySplitsAccepted ==
    (Handled("create_expense") /\ request.amount > 0 /\ request.splits = <<>>) =>
        /\ response.status = 200
        /\ Len(store.expense) = Len(prev.expense) + 1
        /\ Last(store.expense)._id = response.id
        /\ Last(store.expense).fields.splits = <<>>

C7_Witness ==
    /\ Handled("create_expense")
    /\ request.amount > 0
    /\ request.splits = <<>>
    /\ response.status = 200
    /\ Len(store.expense) > 0

(* C9: every stored expense has amount > 0 and split entries with share    *)
(* >= 0 and a type among equal, exact, percentage; a rejected request      *)
(* leaves the store as it was.                                             *)
C9_StoredExpensesValid ==
    /\ \A e \in Expenses :
          /\ e.amount > 0
          /\ \A i \in 1..Len(e.splits) :
                e.splits[i].share >= 0 /\ e.splits[i].type \in SplitTypes
    /\ (request # NoRequest /\ response.status # 200) => store = prev

C9_Witness ==
    /\ Handled("create_expense")
    /\ response.status = 200
    /\ \E e \in Expenses : Len(e.splits) = MaxSplits

(* C10: an accepted create_expense request stores date unset whatever date *)
(* the request holds, and stores group_id, description, amount, currency,  *)
(* paid_by, splits and notes as the request holds them.                    *)
C10_DateNeverStored ==
    (Handled("create_expense") /\ response.status = 200) =>
        LET e == Last(store.expense).fields
        IN  /\ Len(store.expense) = Len(prev.expense) + 1
            /\ e.date = "None"
            /\ e.group_id = request.group_id
            /\ e.description = request.description
            /\ e.amount = request.amount
            /\ e.currency = request.currency
            /\ e.paid_by = request.paid_by
            /\ e.splits = request.splits
            /\ e.notes = request.notes

C10_Witness ==
    /\ Handled("create_expense")
    /\ response.status = 200
    /\ request.date # "None"
    /\ Len(request.splits) > 0

----------------------------------------------------------------------------
(* Properties of serialize_doc *)

Serialized == trace = <<"serialize_doc">>
StoredDocument == doc.present /\ "_id" \in DOMAIN doc.fields
Converted(v) == IF isinstance_datetime(v) THEN isoformat(v) ELSE v

(* C8 as stated: the result of serialize_doc on a stored document has no   *)
(* _id, has id = str(_id), and returns every other field under its key,    *)
(* a timestamp in its textual form and any other value unchanged; None     *)
(* yields None.                                                            *)
C8_AsStated ==
    Serialized =>
        /\ ~doc.present => result = None
        /\ StoredDocument =>
              /\ result.present
              /\ "_id" \notin DOMAIN result.fields
              /\ "id" \in DOMAIN result.fields
              /\ result.fields["id"] = str(doc.fields["_id"])
              /\ \A k \in DOMAIN doc.fields \ {"_id"} :
                    /\ k \in DOMAIN result.fields
                    /\ result.fields[k] = Converted(doc.fields[k])

(* C8 amended: as above for every field other than _id and id; a stored    *)
(* field named id is replaced by str(_id), and the result has no other key.*)
C8_SerializeDoc ==
    Serialized =>
        /\ ~doc.present => result = None
        /\ StoredDocument =>
              /\ result.present
              /\ DOMAIN result.fields = (DOMAIN doc.fields \ {"_id"}) \cup {"id"}
              /\ result.fields["id"] = str(doc.fields["_id"])
              /\ \A k \in DOMAIN doc.fields \ {"_id", "id"} :
                    result.fields[k] = Converted(doc.fields[k])

C8_Witness ==
    /\ Serialized
    /\ StoredDocument
    /\ "id" \in DOMAIN doc.fields
    /\ \E k \in DOMAIN doc.fields : isinstance_datetime(doc.fields[k]) /\ k # "id"
    /\ \E k \in DOMAIN doc.fields : k \notin {"_id", "id"} /\ ~isinstance_datetime(doc.fields[k])

====
